---- MODULE Spec2Model ----
(***************************************************************************)
(* State-machine model of specsim/atmosphere.py: the Atmosphere class      *)
(* (__init__, set_condition, set_airmass, propagate), the Moon class and   *)
(* the phase validation of krisciunas_schaefer.                            *)
(*                                                                         *)
(* Arrays are objects of a heap (identity matters for in-place operators   *)
(* such as `sky *= self.extinction`).  Floating point numbers are fixed    *)
(* point numbers with Scale units per 1.0; astropy units are not modelled. *)
(***************************************************************************)
EXTENDS Integers, Sequences, FiniteSets, TLC

\* ---------------------------------------------------------------- bounds
GridLen == 2
MaxAirmass == 2
MaxFiberArea == 1
MaxFlux == 1
MaxSwitches == 3
MaxPhaseLen == 2

\* Fixed point: Scale units per 1.0.
Scale == 1000

Fx(n) == n * Scale
FxMul(a, b) == (a * b) \div Scale

\* 1000 * 10^(r/10) for r = 0..9
Frac10 == <<1000, 1259, 1585, 1995, 2512, 3162, 3981, 5012, 6310, 7943>>

RECURSIVE IntPow10(_)
IntPow10(q) == IF q <= 0 THEN 1 ELSE 10 * IntPow10(q - 1)

\* 10 ** (k/10) in fixed point, k an integer number of tenths.
Pow10Tenths(k) ==
    LET q == k \div 10
        r == k % 10
    IN  IF q >= 0 THEN Frac10[r + 1] * IntPow10(q)
        ELSE Frac10[r + 1] \div IntPow10(0 - q)

\* ------------------------------------------------------- numpy-like values
\* A value is a 0-d scalar (dim 0, one datum) or a 1-d array (dim 1).
Scalar(x) == [dim |-> 0, data |-> <<x>>]
Arr(s) == [dim |-> 1, data |-> s]
Shape(v) == IF v.dim = 0 THEN <<>> ELSE <<Len(v.data)>>

\* numpy broadcasting of two operands.
BroadcastOK(a, b) ==
    \/ a.dim = 0
    \/ b.dim = 0
    \/ Len(a.data) = Len(b.data)
    \/ Len(a.data) = 1
    \/ Len(b.data) = 1

OutLen(a, b) ==
    IF a.dim = 0 THEN Len(b.data)
    ELSE IF b.dim = 0 THEN Len(a.data)
    ELSE IF Len(a.data) = 1 THEN Len(b.data)
    ELSE Len(a.data)

At(v, i) == IF v.dim = 0 \/ Len(v.data) = 1 THEN v.data[1] ELSE v.data[i]

Mul(a, b) ==
    [dim |-> IF a.dim = 0 /\ b.dim = 0 THEN 0 ELSE 1,
     data |-> [i \in 1..OutLen(a, b) |-> FxMul(At(a, i), At(b, i))]]

Add(a, b) ==
    [dim |-> IF a.dim = 0 /\ b.dim = 0 THEN 0 ELSE 1,
     data |-> [i \in 1..OutLen(a, b) |-> At(a, i) + At(b, i)]]

\* 10 ** (-extinction_coefficient * airmass / 2.5), element by element.
\* e * X / 2.5 in tenths is (e * X) / 250 fixed point units.
Transmission(e, X) ==
    [dim |-> e.dim,
     data |-> [i \in 1..Len(e.data) |->
                  Pow10Tenths((0 - FxMul(e.data[i], X)) \div 250)]]

\* ------------------------------------------------------------------ heap
ObjIds == 1..12
None == 0

Alloc(h) ==
    CHOOSE i \in ObjIds \ DOMAIN h : \A j \in ObjIds \ DOMAIN h : i <= j

\* A new object holding v; its reference is Alloc(h).
New(h, v) == [i \in DOMAIN h \cup {Alloc(h)} |-> IF i \in DOMAIN h THEN h[i] ELSE v]

\* Reference counting: only the objects reachable from roots stay.
Collect(h, roots) == [i \in DOMAIN h \cap roots |-> h[i]]

Range(f) == {f[x] : x \in DOMAIN f}

\* ------------------------------------------------------------- exceptions
NoExc == [type |-> "None", msg |-> <<>>]
Raise(t, m) == [type |-> t, msg |-> m]

VARIABLES
    heap,                      \* object id -> value
    surface_brightness_dict,   \* condition name -> reference
    extinction_coefficient,    \* reference
    constructed,               \* an Atmosphere instance exists
    extinct_emission,          \* self.extinct_emission
    condition_names,           \* self.condition_names
    atm_moon,                  \* self.moon: "None" or "Moon"
    condition,                 \* self.condition
    surface_brightness,        \* self.surface_brightness (reference)
    airmass,                   \* self.airmass
    extinction,                \* self.extinction (reference)
    global_extinct_emission,   \* the module-level name read at line 78
    lastCall,                  \* the last finished call: op, args, exc, ret
    switches,                  \* history: changes of condition so far (capped)
    pc,                        \* thread -> where its propagate call stands
    frame,                     \* thread -> arguments, locals and outcome
    moon                       \* the attributes (__dict__) of a Moon instance

atmVars == <<surface_brightness_dict, extinction_coefficient, constructed,
             extinct_emission, condition_names, atm_moon, condition,
             surface_brightness, airmass, extinction, global_extinct_emission>>
thrVars == <<pc, frame>>
vars == <<heap, atmVars, lastCall, switches, thrVars, moon>>

\* Threads calling propagate on the one instance.
Threads == {1, 2}
EmptyFrame == [src |-> None, srcv |-> Scalar(0), area |-> 0, sky |-> None,
               exc |-> NoExc, ret |-> None]

\* ---------------------------------------------------------- input domains
Names == {"dark", "bright", "gray"}
ConfiguredNames == {"dark", "bright"}
Airmasses == {Fx(n) : n \in (0 - 1)..MaxAirmass}
FiberAreas == {Fx(0), Fx(MaxFiberArea)}
SourceFluxes ==
    {Arr([i \in 1..n |-> Fx(f + i - 1)]) : n \in 0..(GridLen + 1), f \in 0..MaxFlux}
        \cup {Scalar(Fx(f)) : f \in 0..MaxFlux}

\* Tabulated data on the wavelength grid, as the loader hands them over.
DarkSky == Arr([i \in 1..GridLen |-> Fx(i)])
BrightSky == Arr([i \in 1..GridLen |-> Fx(GridLen + 1 + i)])
ExtinctionTables ==
    {Arr([i \in 1..GridLen |-> 250 * (i - 1)]), Arr([i \in 1..GridLen |-> 250])}

\* The objects the model itself holds.
ModelRoots ==
    Range(surface_brightness_dict)
        \cup {extinction_coefficient, surface_brightness, extinction}

\* ------------------------------------------------- Atmosphere.set_condition
\* Lines 59-64.  cur is the <<condition, surface_brightness>> pair held
\* before the call; the result is the exception (if any) and the pair held
\* after it.
\* Faulty variant: the attribute is assigned before the name is validated.
SetConditionAssignFirst(names, dict, cur, name) ==
    IF name \notin names
    THEN [exc |-> Raise("ValueError", <<"Invalid condition", name, names>>),
          condition |-> name, surface_brightness |-> cur[2]]
    ELSE [exc |-> NoExc, condition |-> name, surface_brightness |-> dict[name]]

\* Faulty variant: no validation; the lookup at line 64 fails after line 63 ran.
SetConditionNoCheck(names, dict, cur, name) ==
    IF name \notin DOMAIN dict
    THEN [exc |-> Raise("KeyError", <<name>>),
          condition |-> name, surface_brightness |-> cur[2]]
    ELSE [exc |-> NoExc, condition |-> name, surface_brightness |-> dict[name]]

SetConditionResult(names, dict, cur, name) ==
    IF name \notin names
    THEN [exc |-> Raise("ValueError", <<"Invalid condition", name, names>>),
          condition |-> cur[1], surface_brightness |-> cur[2]]
    ELSE [exc |-> NoExc, condition |-> name, surface_brightness |-> dict[name]]

set_condition(name) ==
    /\ constructed
    /\ \E r \in {SetConditionResult(condition_names, surface_brightness_dict,
                                     <<condition, surface_brightness>>, name)} :
           /\ condition' = r.condition
           /\ surface_brightness' = r.surface_brightness
           /\ switches' = IF r.condition # condition /\ switches < MaxSwitches
                          THEN switches + 1 ELSE switches
           /\ lastCall' = [op |-> "set_condition", args |-> <<name>>,
                           exc |-> r.exc, ret |-> None]
    /\ heap' = Collect(heap, ModelRoots)
    /\ UNCHANGED <<surface_brightness_dict, extinction_coefficient,
                   constructed, extinct_emission, condition_names, atm_moon,
                   airmass, extinction, global_extinct_emission>>

\* --------------------------------------------------- Atmosphere.set_airmass
\* Lines 70-71: the new transmission array is a new object.
\* Faulty variant: the curve is computed from the airmass held before the call.
SetAirmassStale(h, ecoef, X) ==
    [airmass |-> X, heap |-> New(h, Transmission(h[ecoef], airmass)),
     extinction |-> Alloc(h)]

SetAirmassResult(h, ecoef, X) ==
    [airmass |-> X, heap |-> New(h, Transmission(h[ecoef], X)),
     extinction |-> Alloc(h)]

\* The array self.extinction held before loses its last reference at the
\* assignment; object ids being interchangeable, its id is handed out again.
set_airmass(X) ==
    /\ constructed
    /\ \E r \in {SetAirmassResult(Collect(heap, ModelRoots \ {extinction}),
                                   extinction_coefficient, X)} :
           /\ airmass' = r.airmass
           /\ extinction' = r.extinction
           /\ heap' = r.heap
           /\ lastCall' = [op |-> "set_airmass", args |-> <<X>>,
                           exc |-> NoExc, ret |-> None]
    /\ UNCHANGED <<surface_brightness_dict, extinction_coefficient, constructed,
                   extinct_emission, condition_names, atm_moon, condition,
                   surface_brightness, global_extinct_emission, switches>>

\* ------------------------------------------------------ Atmosphere.__init__
\* Lines 45-53.  When set_condition raises, the constructor raises and no
\* instance comes into being.
AtmosphereInit(flag, cond, X, m) ==
    /\ ~constructed
    /\ \E names \in {DOMAIN surface_brightness_dict} :
       \E c \in {SetConditionResult(names, surface_brightness_dict,
                                     <<condition, surface_brightness>>, cond)} :
       \E a \in {SetAirmassResult(heap, extinction_coefficient, X)} :
           IF c.exc # NoExc
           THEN /\ lastCall' = [op |-> "__init__", args |-> <<flag, cond, X, m>>,
                                exc |-> c.exc, ret |-> None]
                /\ UNCHANGED <<heap, atmVars, switches>>
           ELSE /\ constructed' = TRUE
                /\ extinct_emission' = flag
                /\ condition_names' = names
                /\ atm_moon' = m
                /\ condition' = c.condition
                /\ surface_brightness' = c.surface_brightness
                /\ airmass' = a.airmass
                /\ extinction' = a.extinction
                /\ heap' = a.heap
                /\ lastCall' = [op |-> "__init__", args |-> <<flag, cond, X, m>>,
                                exc |-> NoExc, ret |-> None]
                /\ UNCHANGED <<surface_brightness_dict, extinction_coefficient,
                               global_extinct_emission, switches>>

\* ------------------------------------------------------ Atmosphere.propagate
\* Line 77: sky = self.surface_brightness * fiber_area, a new array.
\* Faulty variant: sky aliases the stored spectrum and is scaled in place.
SkyTimesAreaInPlace(h, sb, area) ==
    [heap |-> [h EXCEPT ![sb] = Mul(h[sb], Scalar(area))], ref |-> sb]

SkyTimesArea(h, sb, area) ==
    [heap |-> New(h, Mul(h[sb], Scalar(area))), ref |-> Alloc(h)]

\* Line 78: the name extinct_emission is looked up in the module's globals
\* (it is no local and no attribute of self); an unbound name raises.
ExtinctEmissionFlag == global_extinct_emission

\* Line 79: sky *= self.extinction, in place.
ExtinctSky(h, sky, ext) == [h EXCEPT ![sky] = Mul(h[sky], h[ext])]

\* Line 80: return sky + source_flux * self.extinction, a new array;
\* numpy raises when the operands do not broadcast.
SkyPlusSource(h, sky, src, ext) ==
    LET t == Mul(h[src], h[ext])
    IN  IF ~BroadcastOK(h[src], h[ext])
        THEN [heap |-> h, ret |-> None,
              exc |-> Raise("ValueError", <<"operands could not be broadcast",
                                            Shape(h[src]), Shape(h[ext])>>)]
        ELSE IF ~BroadcastOK(h[sky], t)
        THEN [heap |-> h, ret |-> None,
              exc |-> Raise("ValueError", <<"operands could not be broadcast",
                                            Shape(h[sky]), Shape(t)>>)]
        ELSE [heap |-> New(h, Add(h[sky], t)), ret |-> Alloc(h), exc |-> NoExc]

NameError == Raise("NameError", <<"name 'extinct_emission' is not defined">>)

\* Lines 77-80 run without interruption.
PropagateResult(h, src, area) ==
    LET s1 == SkyTimesArea(h, surface_brightness, area)
    IN  IF ExtinctEmissionFlag = "undefined"
        THEN [heap |-> s1.heap, ret |-> None, exc |-> NameError]
        ELSE IF ExtinctEmissionFlag = "True"
        THEN SkyPlusSource(ExtinctSky(s1.heap, s1.ref, extinction), s1.ref,
                           src, extinction)
        ELSE SkyPlusSource(s1.heap, s1.ref, src, extinction)

\* The caller passes a source flux object of its own and keeps the result;
\* the objects of its previous call are dropped.
propagate(srcv, area) ==
    /\ constructed
    /\ \E kept \in {Collect(heap, ModelRoots)} :
       \E src \in {Alloc(kept)} :
       \E r \in {PropagateResult(New(kept, srcv), src, area)} :
           /\ heap' = Collect(r.heap, ModelRoots \cup {src, r.ret})
           /\ lastCall' = [op |-> "propagate", args |-> <<src, srcv, area>>,
                           exc |-> r.exc, ret |-> r.ret]
    /\ UNCHANGED <<atmVars, switches>>

\* -------------------------------------------------------------------- Init
NoCall == [op |-> "none", args |-> <<>>, exc |-> NoExc, ret |-> None]

Init ==
    /\ \E e \in ExtinctionTables :
          heap = <<DarkSky, BrightSky, e>>
    /\ surface_brightness_dict = [n \in ConfiguredNames |->
                                     IF n = "dark" THEN 1 ELSE 2]
    /\ extinction_coefficient = 3
    /\ constructed = FALSE
    /\ extinct_emission = FALSE
    /\ condition_names = {}
    /\ atm_moon = "None"
    /\ condition = ""
    /\ surface_brightness = None
    /\ airmass = 0
    /\ extinction = None
    /\ global_extinct_emission \in {"undefined", "True", "False"}
    /\ lastCall = NoCall
    /\ switches = 0
    /\ pc = [t \in Threads |-> "idle"]
    /\ frame = [t \in Threads |-> EmptyFrame]
    /\ moon = <<>>

Next ==
    \/ /\ \E flag \in BOOLEAN, cond \in Names, X \in Airmasses :
             AtmosphereInit(flag, cond, X, "None")
       /\ UNCHANGED <<thrVars, moon>>
    \/ /\ \E name \in Names : set_condition(name)
       /\ UNCHANGED <<thrVars, moon>>
    \/ /\ \E X \in Airmasses : set_airmass(X)
       /\ UNCHANGED <<thrVars, moon>>
    \/ /\ \E srcv \in SourceFluxes, area \in FiberAreas : propagate(srcv, area)
       /\ UNCHANGED <<thrVars, moon>>

Spec == Init /\ [][Next]_vars

\* ------------------------------------------- propagate, statement by statement
\* Several threads call propagate on the one instance; the interpreter
\* switches between them at statement boundaries.  set_condition and
\* set_airmass are not called while a propagate call is in flight.
ConcAirmasses == {Fx(0), Fx(MaxAirmass)}
ConcFiberAreas == FiberAreas
ConcSourceFluxes ==
    {Arr([i \in 1..GridLen |-> Fx(i)]), Scalar(Fx(1)),
     Arr([i \in 1..(GridLen + 1) |-> Fx(1)])}

ThreadRoots(t) == {frame[t].src, frame[t].sky, frame[t].ret}
AllRoots == ModelRoots \cup UNION {ThreadRoots(t) : t \in Threads}

\* The caller builds its source flux and enters propagate.
Call(t, srcv, area) ==
    /\ pc[t] = "idle"
    /\ heap' = New(heap, srcv)
    /\ frame' = [frame EXCEPT ![t] = [src |-> Alloc(heap), srcv |-> srcv,
                                      area |-> area, sky |-> None,
                                      exc |-> NoExc, ret |-> None]]
    /\ pc' = [pc EXCEPT ![t] = "l77"]
    /\ UNCHANGED <<atmVars, lastCall, switches, moon>>

Line77(t) ==
    /\ pc[t] = "l77"
    /\ \E r \in {SkyTimesArea(heap, surface_brightness, frame[t].area)} :
          /\ heap' = r.heap
          /\ frame' = [frame EXCEPT ![t].sky = r.ref]
    /\ pc' = [pc EXCEPT ![t] = "l78"]
    /\ UNCHANGED <<atmVars, lastCall, switches, moon>>

Line78(t) ==
    /\ pc[t] = "l78"
    /\ IF ExtinctEmissionFlag = "undefined"
       THEN /\ frame' = [frame EXCEPT ![t].exc = NameError, ![t].sky = None]
            /\ heap' = Collect(heap, AllRoots \ ({frame[t].sky} \ ModelRoots))
            /\ pc' = [pc EXCEPT ![t] = "done"]
       ELSE /\ pc' = [pc EXCEPT ![t] =
                        IF ExtinctEmissionFlag = "True" THEN "l79" ELSE "l80"]
            /\ UNCHANGED <<heap, frame>>
    /\ UNCHANGED <<atmVars, lastCall, switches, moon>>

Line79(t) ==
    /\ pc[t] = "l79"
    /\ heap' = ExtinctSky(heap, frame[t].sky, extinction)
    /\ pc' = [pc EXCEPT ![t] = "l80"]
    /\ UNCHANGED <<frame, atmVars, lastCall, switches, moon>>

Line80(t) ==
    /\ pc[t] = "l80"
    /\ \E r \in {SkyPlusSource(heap, frame[t].sky, frame[t].src, extinction)} :
          /\ frame' = [frame EXCEPT ![t].exc = r.exc, ![t].ret = r.ret,
                                    ![t].sky = None]
          /\ heap' = Collect(r.heap, (AllRoots \cup {r.ret})
                                        \ ({frame[t].sky} \ ModelRoots))
    /\ pc' = [pc EXCEPT ![t] = "done"]
    /\ UNCHANGED <<atmVars, lastCall, switches, moon>>

\* The caller takes the outcome and drops its objects.
Return(t) ==
    /\ pc[t] = "done"
    /\ heap' = Collect(heap, ModelRoots \cup
                             UNION {ThreadRoots(u) : u \in Threads \ {t}})
    /\ frame' = [frame EXCEPT ![t] = EmptyFrame]
    /\ pc' = [pc EXCEPT ![t] = "idle"]
    /\ UNCHANGED <<atmVars, lastCall, switches, moon>>

\* An instance as the constructor leaves it.
InitConc ==
    /\ \E e \in ExtinctionTables, flag \in BOOLEAN, cond \in ConfiguredNames,
          X \in ConcAirmasses :
       \E c \in {SetConditionResult(ConfiguredNames,
                                    [n \in ConfiguredNames |->
                                        IF n = "dark" THEN 1 ELSE 2],
                                    <<"", None>>, cond)} :
       \E a \in {SetAirmassResult(<<DarkSky, BrightSky, e>>, 3, X)} :
          /\ heap = a.heap
          /\ extinct_emission = flag
          /\ condition = c.condition
          /\ surface_brightness = c.surface_brightness
          /\ airmass = a.airmass
          /\ extinction = a.extinction
          /\ lastCall = [op |-> "__init__", args |-> <<flag, cond, X, "None">>,
                         exc |-> NoExc, ret |-> None]
    /\ surface_brightness_dict = [n \in ConfiguredNames |->
                                     IF n = "dark" THEN 1 ELSE 2]
    /\ extinction_coefficient = 3
    /\ constructed = TRUE
    /\ condition_names = ConfiguredNames
    /\ atm_moon = "None"
    /\ global_extinct_emission \in {"undefined", "True", "False"}
    /\ switches = 0
    /\ pc = [t \in Threads |-> "idle"]
    /\ frame = [t \in Threads |-> EmptyFrame]
    /\ moon = <<>>

NextConc ==
    \/ \E t \in Threads, srcv \in ConcSourceFluxes, area \in ConcFiberAreas :
          Call(t, srcv, area)
    \/ \E t \in Threads : Line77(t)
    \/ \E t \in Threads : Line78(t)
    \/ \E t \in Threads : Line79(t)
    \/ \E t \in Threads : Line80(t)
    \/ \E t \in Threads : Return(t)

SpecConc == InitConc /\ [][NextConc]_vars

\* ---------------------------------------------------------------- Moon
\* Phases are fixed point numbers, angles whole degrees.
PhaseValues == {0 - 10, 0, 500, Fx(1), Fx(1) + 10}
Angles == {0, 45, 90}
MoonSpectrum == Arr([i \in 1..GridLen |-> Fx(2 * i)])
Geometry == {"moon_phase", "moon_zenith", "observation_zenith", "separation_angle"}

\* Faulty variant: the two zenith angles are stored in each other's attribute.
MoonUpdateSwapped(d, moon_phase, moon_zenith, observation_zenith, separation_angle) ==
    [k \in DOMAIN d \cup Geometry |->
        IF k = "moon_phase" THEN moon_phase
        ELSE IF k = "moon_zenith" THEN observation_zenith
        ELSE IF k = "observation_zenith" THEN moon_zenith
        ELSE IF k = "separation_angle" THEN separation_angle
        ELSE d[k]]

\* Lines 139-142 on the attributes d of the instance.
MoonUpdateResult(d, moon_phase, moon_zenith, observation_zenith, separation_angle) ==
    [k \in DOMAIN d \cup Geometry |->
        IF k = "moon_phase" THEN moon_phase
        ELSE IF k = "moon_zenith" THEN moon_zenith
        ELSE IF k = "observation_zenith" THEN observation_zenith
        ELSE IF k = "separation_angle" THEN separation_angle
        ELSE d[k]]

\* Moon.update
update(p, mz, oz, sa) ==
    /\ moon # <<>>
    /\ moon' = MoonUpdateResult(moon, p, mz, oz, sa)
    /\ lastCall' = [op |-> "Moon.update", args |-> <<p, mz, oz, sa>>,
                    exc |-> NoExc, ret |-> None]
    /\ UNCHANGED <<heap, atmVars, switches, thrVars>>

\* Moon.__init__, lines 131-134.
MoonInit(spectrum, ecoef, p, mz, oz, sa) ==
    /\ moon = <<>>
    /\ moon' = MoonUpdateResult(
                  [k \in {"moon_spectrum", "extinction_coefficient"} |->
                      IF k = "moon_spectrum" THEN spectrum ELSE ecoef],
                  p, mz, oz, sa)
    /\ lastCall' = [op |-> "Moon.__init__",
                    args |-> <<spectrum, ecoef, p, mz, oz, sa>>,
                    exc |-> NoExc, ret |-> None]
    /\ UNCHANGED <<heap, atmVars, switches, thrVars>>

\* The tables are loaded (the moon's flux is object 4), no Moon exists yet.
InitMoon ==
    /\ \E e \in ExtinctionTables :
          heap = <<DarkSky, BrightSky, e, MoonSpectrum>>
    /\ surface_brightness_dict = [n \in ConfiguredNames |->
                                     IF n = "dark" THEN 1 ELSE 2]
    /\ extinction_coefficient = 3
    /\ constructed = FALSE
    /\ extinct_emission = FALSE
    /\ condition_names = {}
    /\ atm_moon = "None"
    /\ condition = ""
    /\ surface_brightness = None
    /\ airmass = 0
    /\ extinction = None
    /\ global_extinct_emission = "undefined"
    /\ lastCall = NoCall
    /\ switches = 0
    /\ pc = [t \in Threads |-> "idle"]
    /\ frame = [t \in Threads |-> EmptyFrame]
    /\ moon = <<>>

NextMoon ==
    \/ \E p \in PhaseValues, mz \in Angles, oz \in Angles, sa \in Angles :
          MoonInit(4, extinction_coefficient, p, mz, oz, sa)
    \/ \E p \in PhaseValues, mz \in Angles, oz \in Angles, sa \in Angles :
          update(p, mz, oz, sa)

SpecMoon == InitMoon /\ [][NextMoon]_vars

\* ------------------------------------------------------ krisciunas_schaefer
\* A moon_phase argument after np.asarray: a 0-d or a 1-d array.
PhaseInputs ==
    {Scalar(p) : p \in PhaseValues}
        \cup UNION {{Arr(q) : q \in [1..n -> PhaseValues]} : n \in 1..MaxPhaseLen}
Pointings == {<<0, 0, 90>>, <<45, 90, 45>>}
VbandExtinction == 162

\* Faulty variant: the upper boundary is rejected too.
PhaseInvalidStrict(moon_phase) ==
    \E i \in DOMAIN moon_phase.data :
        moon_phase.data[i] < 0 \/ moon_phase.data[i] >= Fx(1)

\* Line 180: np.any((moon_phase < 0) | (moon_phase > 1))
PhaseInvalid(moon_phase) ==
    \E i \in DOMAIN moon_phase.data :
        moon_phase.data[i] < 0 \/ moon_phase.data[i] > Fx(1)

\* Line 184: abs_alpha = 180. * moon_phase
AbsAlpha(moon_phase) ==
    [dim |-> moon_phase.dim,
     data |-> [i \in DOMAIN moon_phase.data |-> 180 * moon_phase.data[i]]]

\* Lines 179-205.  Of the brightness only its first step (line 184) is
\* worked out; the remaining steps (lines 185-205) are real-valued functions
\* of it and of the other arguments and raise nothing.
KrisciunasSchaeferResult(obs_zenith, moon_zenith, separation_angle, moon_phase, vband_extinction) ==
    IF PhaseInvalid(moon_phase)
    THEN [exc |-> Raise("ValueError", <<"Invalid moon phase", moon_phase>>),
          ret |-> <<>>]
    ELSE [exc |-> NoExc,
          ret |-> <<[abs_alpha |-> AbsAlpha(moon_phase), rho |-> separation_angle,
                     obs_zenith |-> obs_zenith, moon_zenith |-> moon_zenith,
                     k |-> vband_extinction]>>]

krisciunas_schaefer(obs_zenith, moon_zenith, separation_angle, moon_phase, vband_extinction) ==
    /\ \E r \in {KrisciunasSchaeferResult(obs_zenith, moon_zenith,
                                          separation_angle, moon_phase,
                                          vband_extinction)} :
          lastCall' = [op |-> "krisciunas_schaefer",
                       args |-> <<obs_zenith, moon_zenith, separation_angle,
                                  moon_phase, vband_extinction>>,
                       exc |-> r.exc, ret |-> r.ret]
    /\ UNCHANGED <<heap, atmVars, switches, thrVars, moon>>

NextKS ==
    \E g \in Pointings, ph \in PhaseInputs :
        krisciunas_schaefer(g[1], g[2], g[3], ph, VbandExtinction)

SpecKS == InitMoon /\ [][NextKS]_vars

\* ================================================================ claims
\* The table a condition name stands for, and what the documented formulas
\* (module docstring, lines 4-22) give for it.
TableOf(cond) == IF cond = "dark" THEN DarkSky ELSE BrightSky

DocumentedFlux(b, T, s, a, flag) ==
    IF flag THEN Add(Mul(Mul(b, Scalar(a)), T), Mul(s, T))
    ELSE Add(Mul(b, Scalar(a)), Mul(s, T))

Aligned(v) == v.dim = 1 /\ Len(v.data) = GridLen

ReturnedValues == IF lastCall.ret = None THEN {} ELSE {heap[lastCall.ret]}

\* C1: propagate with a source flux aligned to the grid does not raise and
\* returns sky + source_flux * transmission, the sky term extinguished
\* exactly when the flag stored on the instance is true.
C1_PropagateUsesStoredFlag ==
    (lastCall.op = "propagate" /\ Aligned(lastCall.args[2])) =>
        /\ lastCall.exc = NoExc
        /\ ReturnedValues =
              {DocumentedFlux(heap[surface_brightness], heap[extinction],
                              lastCall.args[2], lastCall.args[3],
                              extinct_emission)}

\* C2: set_condition with a name that is no configured key raises a
\* ValueError naming the configured conditions and changes nothing of the
\* model; a set_condition with a valid name right after it succeeds.
C2_InvalidConditionRejected ==
    [][/\ (lastCall'.op = "set_condition"
            /\ lastCall'.args[1] \notin condition_names) =>
              /\ lastCall'.exc.type = "ValueError"
              /\ lastCall'.exc.msg[2] = lastCall'.args[1]
              /\ lastCall'.exc.msg[3] = DOMAIN surface_brightness_dict
              /\ UNCHANGED <<condition, surface_brightness, airmass, extinction>>
              /\ heap'[extinction] = heap[extinction]
              /\ heap'[surface_brightness] = heap[surface_brightness]
       /\ (lastCall.op = "set_condition" /\ lastCall.exc # NoExc
            /\ lastCall'.op = "set_condition"
            /\ lastCall'.args[1] \in DOMAIN surface_brightness_dict) =>
              /\ lastCall'.exc = NoExc
              /\ condition' = lastCall'.args[1]
              /\ surface_brightness' = surface_brightness_dict[condition']
      ]_vars

C2_Witness ==
    /\ lastCall.op = "set_condition"
    /\ lastCall.args[1] = "gray"
    /\ lastCall.exc.type = "ValueError"
    /\ condition = "bright"
    /\ airmass = Fx(2)

\* C3: whenever an instance exists its condition is a key of the mapping and
\* its active spectrum is the mapping's entry for that name; a constructor
\* call with a condition that is no key raises and leaves no instance.
C3_ConditionIsKey ==
    /\ constructed =>
          /\ condition \in DOMAIN surface_brightness_dict
          /\ surface_brightness = surface_brightness_dict[condition]
    /\ (lastCall.op = "__init__"
         /\ lastCall.args[2] \notin DOMAIN surface_brightness_dict) =>
          (~constructed /\ lastCall.exc.type = "ValueError")

C3_Witness ==
    /\ constructed
    /\ lastCall.op = "set_condition"
    /\ lastCall.exc # NoExc
    /\ switches >= 1

\* C4: set_airmass raises for no X, and whenever an instance exists its
\* transmission curve is 10^(-e*X/2.5) of the airmass X it stores.
C4_TransmissionFresh ==
    /\ constructed =>
          heap[extinction] = Transmission(heap[extinction_coefficient], airmass)
    /\ lastCall.op = "set_airmass" =>
          (lastCall.exc = NoExc /\ airmass = lastCall.args[1])

C4_Witness ==
    /\ lastCall.op = "set_airmass"
    /\ airmass < 0
    /\ switches >= 1

\* C5: propagate with a source flux not aligned to the grid (another length,
\* a length-1 array, a scalar) raises the mismatch error and returns nothing.
C5_MismatchRejected ==
    (lastCall.op = "propagate" /\ ~Aligned(lastCall.args[2])) =>
        (lastCall.exc.type = "ValueError" /\ lastCall.ret = None)

\* C6: a propagate call, returning or raising, leaves every field of the
\* instance, every array the instance holds and the caller's source flux
\* as they were, and what it returns is an object distinct from all of them.
C6_PropagateMutatesNothing ==
    [][lastCall'.op = "propagate" =>
          /\ UNCHANGED atmVars
          /\ \A o \in ModelRoots : o \in DOMAIN heap' /\ heap'[o] = heap[o]
          /\ heap'[lastCall'.args[1]] = lastCall'.args[2]
          /\ lastCall'.exc = NoExc =>
                /\ lastCall'.ret \in DOMAIN heap'
                /\ lastCall'.ret \notin ModelRoots \cup {lastCall'.args[1]}
      ]_vars

C6_Witness ==
    /\ lastCall.op = "propagate"
    /\ lastCall.exc = NoExc
    /\ global_extinct_emission = "True"
    /\ lastCall.args[3] = Fx(0)

\* What the documented formulas give for a condition, an airmass and the two
\* arguments of propagate, given the module-level name read at line 78.
OutcomeOf(cond, X, srcv, area) ==
    LET T == Transmission(heap[extinction_coefficient], X)
    IN  IF global_extinct_emission = "undefined" THEN <<"NameError", {}>>
        ELSE IF ~BroadcastOK(srcv, T) THEN <<"ValueError", {}>>
        ELSE IF ~BroadcastOK(TableOf(cond), Mul(srcv, T)) THEN <<"ValueError", {}>>
        ELSE <<"None", {DocumentedFlux(TableOf(cond), T, srcv, area,
                                       global_extinct_emission = "True")}>>

\* C7: what propagate gives (the value returned or the exception raised) is
\* determined by the condition and the airmass now stored and by the two
\* arguments, whatever calls came before.
C7_HistoryIndependent ==
    lastCall.op = "propagate" =>
        <<lastCall.exc.type, ReturnedValues>> =
            OutcomeOf(condition, airmass, lastCall.args[2], lastCall.args[3])

\* two changes of condition: away from the first condition and back to it
C7_Witness ==
    /\ lastCall.op = "propagate"
    /\ lastCall.exc = NoExc
    /\ switches = 2
    /\ Aligned(lastCall.args[2])

\* C9: propagate calls running concurrently, with no set_condition or
\* set_airmass in flight, each end as the call would end alone in that
\* state, and the arrays the instance holds stay what they were.
C9_ConcurrentPropagate ==
    /\ \A t \in Threads :
          pc[t] = "done" =>
             <<frame[t].exc.type,
               IF frame[t].ret = None THEN {} ELSE {heap[frame[t].ret]}>> =
                 OutcomeOf(condition, airmass, frame[t].srcv, frame[t].area)
    /\ \A n \in DOMAIN surface_brightness_dict :
          heap[surface_brightness_dict[n]] = TableOf(n)
    /\ heap[extinction] = Transmission(heap[extinction_coefficient], airmass)
    /\ \A t \in Threads : pc[t] # "idle" => heap[frame[t].src] = frame[t].srcv

C9_Witness ==
    /\ pc[1] = "done"
    /\ pc[2] = "l80"
    /\ frame[1].exc = NoExc
    /\ global_extinct_emission = "True"
    /\ frame[1].area # frame[2].area
    /\ frame[1].sky = None /\ frame[2].sky # None

InUnitInterval(x) == 0 <= x /\ x <= Scale

\* C8: krisciunas_schaefer raises a ValueError showing the phase, and
\* computes nothing, when some element of moon_phase is below 0 or above 1;
\* it raises nothing when every element is in [0, 1], 0 and 1 included.
C8_PhaseValidated ==
    lastCall.op = "krisciunas_schaefer" =>
        IF \A i \in DOMAIN lastCall.args[4].data :
               InUnitInterval(lastCall.args[4].data[i])
        THEN lastCall.exc = NoExc /\ Len(lastCall.ret) = 1
        ELSE /\ lastCall.exc.type = "ValueError"
             /\ lastCall.exc.msg[2] = lastCall.args[4]
             /\ lastCall.ret = <<>>

C8_Witness ==
    /\ lastCall.op = "krisciunas_schaefer"
    /\ lastCall.exc = NoExc
    /\ lastCall.args[4] = Arr(<<0, Fx(1)>>)

GeometryOf(d) ==
    <<d["moon_phase"], d["moon_zenith"], d["observation_zenith"],
      d["separation_angle"]>>

\* C10: Moon.update, and the constructor through it, stores each of its four
\* arguments in the attribute of that name, whatever the values, raises
\* nothing, and leaves moon_spectrum and extinction_coefficient alone.
C10_UpdateReplacesGeometry ==
    [][/\ lastCall'.op = "Moon.update" =>
              /\ lastCall'.exc = NoExc
              /\ DOMAIN moon' = DOMAIN moon
              /\ GeometryOf(moon') = lastCall'.args
              /\ moon'["moon_spectrum"] = moon["moon_spectrum"]
              /\ moon'["extinction_coefficient"] = moon["extinction_coefficient"]
              /\ heap' = heap
       /\ lastCall'.op = "Moon.__init__" =>
              /\ lastCall'.exc = NoExc
              /\ DOMAIN moon' = Geometry \cup {"moon_spectrum", "extinction_coefficient"}
              /\ GeometryOf(moon') = SubSeq(lastCall'.args, 3, 6)
              /\ moon'["moon_spectrum"] = lastCall'.args[1]
              /\ moon'["extinction_coefficient"] = lastCall'.args[2]
      ]_vars

C10_Witness ==
    /\ lastCall.op = "Moon.update"
    /\ moon # <<>>
    /\ moon["moon_phase"] > Fx(1)
    /\ moon["moon_zenith"] = 0
    /\ moon["observation_zenith"] = 90
    /\ moon["separation_angle"] = 45
====
